---- MODULE Spec2Model ----
(***************************************************************************)
(* Model of the Smart City Complaint Portal (src/app.py): the in-memory    *)
(* store COMPLAINTS, the submission handler index, the two verification    *)
(* handlers verify (POST /verify) and verify_link (GET /verify/<r>/<t>),   *)
(* the status handler, and the two notification functions.                 *)
(*                                                                         *)
(* Python values are modelled as follows.  A string that the code only     *)
(* passes around (names, reference ids, flash texts) is a TLA+ string.  A  *)
(* token is a sequence of one-character strings, so that its width and its *)
(* digits can be inspected.  The result of request.form.get(k) or          *)
(* os.environ.get(k) is an optional value: None, or Str(v).                *)
(***************************************************************************)
EXTENDS Integers, Sequences, FiniteSets, TLC

\* ------------------------------------------------------------------ bounds

\* The clock time.time() is read as an integer number of seconds in 0..MaxNow.
MaxNow == 2

\* The number of evenly spaced draws of secrets.randbelow(10**6) that the
\* token-format runs add to the draws at the powers of ten.
MaxSample == 40

\* The number of wrong-token requests per record that the runs of repeated
\* attempts follow.
MaxFailed == 2

\* ------------------------------------------------------- program constants

\* TOKEN_TTL_SECONDS = int(os.environ.get("TOKEN_TTL_SECONDS", 60 * 60 * 24)):
\* the value is taken from the environment; the model runs the process with
\* TOKEN_TTL_SECONDS=1 so that ages below, at and above the limit all occur.
TOKEN_TTL_SECONDS == 1

\* f"{...:06d}": minimum field width of the token.
TokenWidth == 6

\* secrets.randbelow(10**6): the draws are 0 .. TokenRange - 1.
TokenRange == 1000000

\* ------------------------------------------------------------ Python values

\* None carries no value: it differs from every Str(v).
None == [isNone |-> TRUE]

Str(v) == [isNone |-> FALSE, val |-> v]

\* Truthiness of an optional string: None and "" are falsy.
Truthy(o) == ~o.isNone /\ o.val # ""

\* The ASCII characters that occur in the tokens of the model.
AsciiChars == {"0", "1", "2", "3", "4", "5", "6", "7", "8", "9"}

\* ------------------------------------------------------------------ inputs

\* The upper-cased first eight hex digits of uuid.uuid4(), as drawn.
Uuid8 == {"0A1B2C3D", "4E5F6A7B"}

\* Values secrets.randbelow(10**6) can return (a sample of 0 .. 10^6 - 1).
TokenDraws == {7}

\* Submitted forms for POST /: request.form.get of the four fields.
Forms ==
    { [name |-> Str("Asha"), email |-> Str("asha@example.com"),
       issue |-> Str("pothole"), location |-> Str("Main St")] }

\* ------------------------------------------------------- token generation

Digit(d) ==
    CASE d = 0 -> "0" [] d = 1 -> "1" [] d = 2 -> "2" [] d = 3 -> "3"
      [] d = 4 -> "4" [] d = 5 -> "5" [] d = 6 -> "6" [] d = 7 -> "7"
      [] d = 8 -> "8" [] d = 9 -> "9"

RECURSIVE Decimal(_)
\* str(n) for n >= 0: the decimal digits without padding.
Decimal(n) == IF n < 10 THEN <<Digit(n)>> ELSE Decimal(n \div 10) \o <<Digit(n % 10)>>

RECURSIVE ZeroPad(_, _)
ZeroPad(s, width) == IF Len(s) >= width THEN s ELSE ZeroPad(<<"0">> \o s, width)

\* Variant of the format: f"{n}", the decimal digits without padding.
FormatNoPad(n) == Decimal(n)

\* f"{n:06d}"
Format06d(n) == ZeroPad(Decimal(n), TokenWidth)

\* f"REF-{uuid.uuid4().hex[:8].upper()}", given the eight upper-cased digits.
generate_reference_id(h) == "REF-" \o h

RefIds == { generate_reference_id(h) : h \in Uuid8 }

Tokens == { Format06d(n) : n \in TokenDraws }

\* ----------------------------------------------------------- configuration

\* Process environments (os.environ): no SMTP variable set, or all of them
\* set (SENDER_EMAIL left to fall back to SMTP_USERNAME).
EnvUnset == [SMTP_HOST |-> None, SMTP_PORT |-> None, SMTP_USERNAME |-> None,
             SMTP_PASSWORD |-> None, SENDER_EMAIL |-> None]

EnvSmtp == [SMTP_HOST |-> Str("smtp.example.com"), SMTP_PORT |-> Str("587"),
            SMTP_USERNAME |-> Str("portal"), SMTP_PASSWORD |-> Str("secret"),
            SENDER_EMAIL |-> None]

Environs == {EnvUnset, EnvSmtp}

DevBackends == {"", "console", "file"}

AdminLists == {<<>>, <<"admin@example.com">>}

\* int(s) for the port strings of Environs.
ParseInt(s) == CASE s = "0" -> 0 [] s = "465" -> 465 [] s = "587" -> 587

\* os.environ.get(k, default)
EnvGet(env, k, default) == IF env[k].isNone THEN default ELSE env[k]

\* The (name, val) filter "if not val" of send_verification_email and
\* send_admin_notification, where smtp_port is int(os.environ.get("SMTP_PORT", "0")).
MissingSmtp(env) ==
    LET smtp_port == ParseInt(EnvGet(env, "SMTP_PORT", Str("0")).val)
        smtp_user == env["SMTP_USERNAME"]
        sender    == IF Truthy(env["SENDER_EMAIL"]) THEN env["SENDER_EMAIL"] ELSE smtp_user
    IN  (IF Truthy(env["SMTP_HOST"]) THEN {} ELSE {"SMTP_HOST"})
        \cup (IF smtp_port # 0 THEN {} ELSE {"SMTP_PORT"})
        \cup (IF Truthy(smtp_user) THEN {} ELSE {"SMTP_USERNAME"})
        \cup (IF Truthy(env["SMTP_PASSWORD"]) THEN {} ELSE {"SMTP_PASSWORD"})
        \cup (IF Truthy(sender) THEN {} ELSE {"SENDER_EMAIL"})

\* _get_missing_smtp_config(): the same filter on the raw SMTP_PORT string.
get_missing_smtp_config(env) ==
    LET smtp_user == env["SMTP_USERNAME"]
        sender    == IF Truthy(env["SENDER_EMAIL"]) THEN env["SENDER_EMAIL"] ELSE smtp_user
    IN  (IF Truthy(env["SMTP_HOST"]) THEN {} ELSE {"SMTP_HOST"})
        \cup (IF Truthy(env["SMTP_PORT"]) THEN {} ELSE {"SMTP_PORT"})
        \cup (IF Truthy(smtp_user) THEN {} ELSE {"SMTP_USERNAME"})
        \cup (IF Truthy(env["SMTP_PASSWORD"]) THEN {} ELSE {"SMTP_PASSWORD"})
        \cup (IF Truthy(sender) THEN {} ELSE {"SENDER_EMAIL"})

\* ---------------------------------------------------------------- notifier

\* What the mail transport does during one call: the SMTP session (connect,
\* starttls, login, sendmail) completes, or raises.  Writing a file under
\* EMAIL_OUTPUT_DIR is taken to complete.
Transports == [smtp : BOOLEAN]

\* The transport during one submission: the SMTP session of each of the two
\* notification calls.
Submissions == [smtp_user : BOOLEAN, smtp_admin : BOOLEAN]

\* Result of a notification call: a returned boolean, or an exception that
\* leaves the function.
Returns(b) == [raised |-> FALSE, value |-> b, exc |-> ""]

Raises(e) == [raised |-> TRUE, value |-> FALSE, exc |-> e]

\* send_verification_email(to_email, reference_id, token)
send_verification_email(env, backend, to_email, io) ==
    IF MissingSmtp(env) # {}
    THEN CASE backend = "console" -> Returns(TRUE)
           [] backend = "file"    -> Returns(TRUE)
           [] OTHER               -> Returns(FALSE)
    ELSE IF to_email.isNone
         THEN Raises("TypeError")     \* ", ".join([None]) before the try block
         ELSE IF io.smtp
              THEN Returns(TRUE)
              ELSE Returns(backend = "file")   \* the except block

\* send_admin_notification(reference_id, record).  In both development
\* branches the locals subject and body are read before the lines that
\* assign them.
send_admin_notification(env, backend, admins, io) ==
    IF admins = <<>>
    THEN Returns(FALSE)
    ELSE IF MissingSmtp(env) # {}
         THEN CASE backend = "console" -> Raises("UnboundLocalError")
                [] backend = "file"    -> Raises("UnboundLocalError")
                [] OTHER               -> Returns(FALSE)
         ELSE Returns(io.smtp)

\* --------------------------------------------------------------- responses

NoFlash == [text |-> "", reference_id |-> "", category |-> ""]

\* flash(text, category); reference_id is the reference id the f-string
\* interpolates into the text, "" when the text names none.
Flash(text, reference_id, category) ==
    [text |-> text, reference_id |-> reference_id, category |-> category]

NoBody == [text |-> ""]

\* return redirect(url_for(endpoint)) after flash(...)
Redirect(endpoint, flash) ==
    [status |-> 302, location |-> endpoint, flash |-> flash, body |-> NoBody]

\* An exception that leaves the view function: Flask answers 500.
Fault(exc) ==
    [status |-> 500, location |-> "", flash |-> NoFlash, body |-> [text |-> exc]]

\* return body, status
Reply(status, body) ==
    [status |-> status, location |-> "", flash |-> NoFlash, body |-> body]

\* ------------------------------------------------------------ verification

IsAscii(s) == \A i \in 1..Len(s) : s[i] \in AsciiChars

\* secrets.compare_digest(a, b) for a str a: TypeError when b is None or
\* when either string holds a non-ASCII character, else a == b.
compare_digest(a, b) ==
    IF b.isNone \/ ~IsAscii(a) \/ ~IsAscii(b.val)
    THEN Raises("TypeError")
    ELSE Returns(a = b.val)

\* Variants of the expiry test: ">=" for ">", and the operands of the
\* subtraction exchanged.
ExpiredAtLimit(record, t) == t - record.created_at >= TOKEN_TTL_SECONDS

ExpiredSwapped(record, t) == record.created_at - t > TOKEN_TTL_SECONDS

\* time.time() - record["created_at"] > TOKEN_TTL_SECONDS
Expired(record, t) == t - record.created_at > TOKEN_TTL_SECONDS

\* The flash-and-redirect endings of the two verification handlers.
InvalidReference(endpoint) ==
    Redirect(endpoint, Flash("Invalid reference id.", "", "danger"))

TokenExpired(endpoint) ==
    Redirect(endpoint, Flash("Token expired. Please resubmit your complaint.", "", "warning"))

VerifySuccess(reference_id) ==
    Redirect("index", Flash("Reference {reference_id} successfully verified. Thank you!",
                            reference_id, "success"))

VerifyMismatch == Redirect("verify", Flash("Invalid token for this reference.", "", "danger"))

LinkSuccess(reference_id) ==
    Redirect("index", Flash("Reference {reference_id} successfully verified via email. Thank you!",
                            reference_id, "success"))

LinkMismatch == Redirect("index", Flash("Invalid token.", "", "danger"))

\* Variant of verify: a request with a wrong token uses the record's token
\* up, so that no later request can match it.
verify_burns_token(store, form, t) ==
    LET reference_id == form.reference_id
        token        == form.token
    IN  IF ~Truthy(reference_id) \/ reference_id.val \notin DOMAIN store
        THEN [store |-> store, response |-> InvalidReference("verify")]
        ELSE LET record == store[reference_id.val]
             IN  IF Expired(record, t)
                 THEN [store |-> store, response |-> TokenExpired("verify")]
                 ELSE IF ~token.isNone /\ token.val = record.token
                      THEN [store    |-> [store EXCEPT ![reference_id.val].verified = TRUE],
                            response |-> VerifySuccess(reference_id.val)]
                      ELSE [store    |-> [store EXCEPT ![reference_id.val].token = <<>>],
                            response |-> VerifyMismatch]

\* Variant of verify: a record that is already verified is reported as
\* verified again before its age is tested.
verify_verified_first(store, form, t) ==
    LET reference_id == form.reference_id
        token        == form.token
    IN  IF ~Truthy(reference_id) \/ reference_id.val \notin DOMAIN store
        THEN [store |-> store, response |-> InvalidReference("verify")]
        ELSE LET record == store[reference_id.val]
                 eq     == compare_digest(record.token, token)
             IN  IF record.verified /\ ~eq.raised /\ eq.value
                 THEN [store |-> store, response |-> VerifySuccess(reference_id.val)]
                 ELSE IF Expired(record, t)
                      THEN [store |-> store, response |-> TokenExpired("verify")]
                      ELSE IF eq.raised
                           THEN [store |-> store, response |-> Fault(eq.exc)]
                           ELSE IF eq.value
                                THEN [store    |-> [store EXCEPT ![reference_id.val].verified = TRUE],
                                      response |-> VerifySuccess(reference_id.val)]
                                ELSE [store |-> store, response |-> VerifyMismatch]

\* POST /verify with request.form = form, at time t.
verify(store, form, t) ==
    LET reference_id == form.reference_id
        token        == form.token
    IN  IF ~Truthy(reference_id) \/ reference_id.val \notin DOMAIN store
        THEN [store |-> store, response |-> InvalidReference("verify")]
        ELSE LET record == store[reference_id.val]
             IN  IF Expired(record, t)
                 THEN [store |-> store, response |-> TokenExpired("verify")]
                 ELSE LET eq == compare_digest(record.token, token)
                      IN  IF eq.raised
                          THEN [store |-> store, response |-> Fault(eq.exc)]
                          ELSE IF eq.value
                               THEN [store    |-> [store EXCEPT ![reference_id.val].verified = TRUE],
                                     response |-> VerifySuccess(reference_id.val)]
                               ELSE [store |-> store, response |-> VerifyMismatch]

\* Variant of the lookup: COMPLAINTS.get(reference_id, default) with an empty
\* unverified record as the default.
StoreGetDefault(store, reference_id) ==
    IF reference_id \in DOMAIN store
    THEN Str(store[reference_id])
    ELSE Str([name |-> None, email |-> None, issue |-> None, location |-> None,
              token |-> <<>>, created_at |-> 0, verified |-> FALSE])

\* COMPLAINTS.get(reference_id): the record, or None.
StoreGet(store, reference_id) ==
    IF reference_id \in DOMAIN store THEN Str(store[reference_id]) ELSE None

\* Variant of verify_link: the token is compared before the age is tested.
verify_link_token_first(store, reference_id, token, t) ==
    LET record == StoreGet(store, reference_id)
    IN  IF record.isNone
        THEN [store |-> store, response |-> InvalidReference("index")]
        ELSE LET eq == compare_digest(record.val.token, Str(token))
             IN  IF eq.raised
                 THEN [store |-> store, response |-> Fault(eq.exc)]
                 ELSE IF eq.value
                      THEN [store    |-> [store EXCEPT ![reference_id].verified = TRUE],
                            response |-> LinkSuccess(reference_id)]
                      ELSE IF Expired(record.val, t)
                           THEN [store |-> store, response |-> TokenExpired("index")]
                           ELSE [store |-> store, response |-> LinkMismatch]

\* GET /verify/<reference_id>/<token> at time t; both path segments are
\* non-empty strings.
verify_link(store, reference_id, token, t) ==
    LET record == StoreGet(store, reference_id)
    IN  IF record.isNone
        THEN [store |-> store, response |-> InvalidReference("index")]
        ELSE IF Expired(record.val, t)
             THEN [store |-> store, response |-> TokenExpired("index")]
             ELSE LET eq == compare_digest(record.val.token, Str(token))
                  IN  IF eq.raised
                      THEN [store |-> store, response |-> Fault(eq.exc)]
                      ELSE IF eq.value
                           THEN [store    |-> [store EXCEPT ![reference_id].verified = TRUE],
                                 response |-> LinkSuccess(reference_id)]
                           ELSE [store |-> store, response |-> LinkMismatch]

\* The Outcome of the verification workflow that a response delivers.
Outcome(response) ==
    CASE response.status = 500 -> "fault"
      [] response.flash.text = "Invalid reference id." -> "already_invalid_reference"
      [] response.flash.text = "Token expired. Please resubmit your complaint." -> "expired"
      [] response.flash.text \in
            {"Reference {reference_id} successfully verified. Thank you!",
             "Reference {reference_id} successfully verified via email. Thank you!"} -> "verified_now"
      [] response.flash.text \in {"Invalid token for this reference.", "Invalid token."} -> "token_mismatch"
      [] OTHER -> "other"

\* ------------------------------------------------------------------ status

\* datetime.fromtimestamp(ts).isoformat(): the timestamp, rendered as text.
IsoFormat(ts) == <<"isoformat", ts>>

\* Variant of status: the payload also carries the record's token.
status_with_token(store, reference_id) ==
    LET record == StoreGet(store, reference_id)
    IN  IF record.isNone
        THEN Reply(404, [text |-> "Reference not found"])
        ELSE Reply(200, [reference_id |-> reference_id,
                         verified     |-> record.val.verified,
                         created_at   |-> IsoFormat(record.val.created_at),
                         token        |-> record.val.token])

\* GET /status/<reference_id>
status(store, reference_id) ==
    LET record == StoreGet(store, reference_id)
    IN  IF record.isNone
        THEN Reply(404, [text |-> "Reference not found"])
        ELSE Reply(200, [reference_id |-> reference_id,
                         verified     |-> record.val.verified,
                         created_at   |-> IsoFormat(record.val.created_at)])

\* -------------------------------------------------------------- submission

\* Variant of the dict literal: the submitter's fields only, the token, the
\* timestamp and the flag being added to the stored dict afterwards.
NewRecordWithoutToken(form, token, created_at) ==
    [name |-> form.name, email |-> form.email, issue |-> form.issue,
     location |-> form.location]

\* The dict literal of index: the record stored under the new reference id.
NewRecord(form, token, created_at) ==
    [name |-> form.name, email |-> form.email, issue |-> form.issue,
     location |-> form.location, token |-> token, created_at |-> created_at,
     verified |-> FALSE]

\* COMPLAINTS[reference_id] = record
StorePut(store, reference_id, record) ==
    [r \in DOMAIN store \cup {reference_id} |->
        IF r = reference_id THEN record ELSE store[r]]

\* The flash-and-redirect ending of index (lines 301-323), given whether the
\* submitter's email was sent.
IndexResponse(reference_id, sent, cfg) ==
    IF sent
    THEN Redirect("index",
            Flash("Complaint submitted. A confirmation email (ref {reference_id}) has been sent to {email}.",
                  reference_id, "success"))
    ELSE IF get_missing_smtp_config(cfg.environ) # {} /\ cfg.debug
         THEN Redirect("index",
                 Flash("Complaint submitted (ref {reference_id}). Email NOT sent. Missing SMTP config: {missing}",
                       reference_id, "warning"))
         ELSE Redirect("index",
                 Flash("Complaint submitted (ref {reference_id}). We could not send an email",
                       reference_id, "warning"))

\* POST / with request.form = form: h and n are the draws of uuid4 and
\* randbelow, t the clock, cfg the process configuration, io what the
\* transport does during the two notification calls.  The result carries
\* the store, the response, and the arguments of the call
\* send_verification_email(email, reference_id, token) of line 297.
index(store, form, h, n, t, cfg, io) ==
    LET reference_id == generate_reference_id(h)
        token        == Format06d(n)
        stored       == StorePut(store, reference_id, NewRecord(form, token, t))
        sent         == send_verification_email(cfg.environ, cfg.backend, form.email,
                                                [smtp |-> io.smtp_user])
        admin        == send_admin_notification(cfg.environ, cfg.backend, cfg.admins,
                                                [smtp |-> io.smtp_admin])
        notified     == [to_email |-> form.email, reference_id |-> reference_id,
                         token |-> token]
    IN  IF sent.raised
        THEN [store |-> stored, notified |-> notified, response |-> Fault(sent.exc)]
        ELSE IF admin.raised
             THEN [store |-> stored, notified |-> notified, response |-> Fault(admin.exc)]
             ELSE [store |-> stored, notified |-> notified,
                   response |-> IndexResponse(reference_id, sent.value, cfg)]

\* ------------------------------------------------------------------- state

VARIABLES
    COMPLAINTS,         \* the store: reference id -> record
    now,                \* the clock read by time.time()
    config,             \* DEV_EMAIL_BACKEND, ADMIN_EMAILS, app.debug
    last,               \* the last request served: its inputs, the clock and the
                        \* store when it arrived, and its response
    threads,            \* per worker thread: the view function it is running, the
                        \* line it has reached and its local variables
    orphans             \* records that were replaced in the store while a thread
                        \* still holds a reference to them in its local "record"

vars == <<COMPLAINTS, now, config, last, threads, orphans>>

\* The worker threads of the Flask development server (threaded by default).
Threads == {"t1", "t2"}

\* A local variable "record" holds a reference to a dict: the one stored
\* under a key of COMPLAINTS, or one that has since been replaced there.
NoPtr == [kind |-> "none", ref |-> "", id |-> 0]

StorePtr(reference_id) == [kind |-> "store", ref |-> reference_id, id |-> 0]

OrphanPtr(i) == [kind |-> "orphan", ref |-> "", id |-> i]

Idle == [pc |-> "idle", handler |-> "", reference_id |-> "", token |-> None,
         email |-> None, record |-> NoPtr, sent |-> FALSE,
         response |-> Reply(0, NoBody)]

\* The module-level settings, fixed when the module is loaded.  The SMTP
\* settings are not among them: the notification functions read os.environ
\* anew on every call.  The process is started as the module's docstring
\* says, "python app.py", which runs app.run(..., debug=True).
Configs == [backend : DevBackends, admins : AdminLists, debug : {TRUE}]

\* The configuration a submission runs under: the module-level settings and
\* the environment env its notification calls read.
WithEnviron(cfg, env) ==
    [environ |-> env, backend |-> cfg.backend, admins |-> cfg.admins, debug |-> cfg.debug]

NoRequest == [handler |-> "", reference_id |-> None, token |-> None,
              at |-> 0, before |-> << >>, response |-> Reply(0, NoBody)]

Served(handler, reference_id, token, response) ==
    [handler |-> handler, reference_id |-> reference_id, token |-> token,
     at |-> now, before |-> COMPLAINTS, response |-> response]

\* Request inputs.  A reference id field of POST /verify is absent, empty or
\* a string; a reference id that is not a key of the store is any of RefIds
\* not yet drawn.  A token is absent, empty, a generated token, a six-digit
\* string that was not generated, or a string with a non-ASCII character.
NonAsciiToken == <<"1", "2", "3", "4", "5", "é">>

OtherToken == <<"1", "2", "3", "4", "5", "6">>

FormRefs == {None, Str("")} \cup { Str(r) : r \in RefIds }

FormTokens == {None, Str(<<>>), Str(NonAsciiToken), Str(OtherToken)}
              \cup { Str(k) : k \in Tokens }

LinkTokens == {NonAsciiToken, OtherToken} \cup Tokens

Init ==
    /\ COMPLAINTS = << >>
    /\ now = 0
    /\ config \in Configs
    /\ last = NoRequest
    /\ threads = [t \in Threads |-> Idle]
    /\ orphans = << >>

\* time passes
Tick ==
    /\ now < MaxNow
    /\ now' = now + 1
    /\ UNCHANGED <<COMPLAINTS, config, last, threads, orphans>>

\* POST /
Index ==
    \E form \in Forms, h \in Uuid8, n \in TokenDraws, env \in Environs,
       io \in Submissions :
        LET res == index(COMPLAINTS, form, h, n, now, WithEnviron(config, env), io)
        IN  /\ COMPLAINTS' = res.store
            /\ last' = Served("index", Str(generate_reference_id(h)),
                              Str(Format06d(n)), res.response)
            /\ UNCHANGED <<now, config, threads, orphans>>

\* POST /verify
Verify ==
    \E reference_id \in FormRefs, token \in FormTokens :
        LET res == verify(COMPLAINTS, [reference_id |-> reference_id, token |-> token], now)
        IN  /\ COMPLAINTS' = res.store
            /\ last' = Served("verify", reference_id, token, res.response)
            /\ UNCHANGED <<now, config, threads, orphans>>

\* GET /verify/<reference_id>/<token>
VerifyLink ==
    \E reference_id \in RefIds, token \in LinkTokens :
        LET res == verify_link(COMPLAINTS, reference_id, token, now)
        IN  /\ COMPLAINTS' = res.store
            /\ last' = Served("verify_link", Str(reference_id), Str(token), res.response)
            /\ UNCHANGED <<now, config, threads, orphans>>

\* GET /status/<reference_id>
Status ==
    \E reference_id \in RefIds :
        /\ last' = Served("status", Str(reference_id), None, status(COMPLAINTS, reference_id))
        /\ UNCHANGED <<COMPLAINTS, now, config, threads, orphans>>

Next == Tick \/ Index \/ Verify \/ VerifyLink \/ Status

Spec == Init /\ [][Next]_vars

\* ---------------------------------------------------- interleaved handlers
\*
\* The same view functions, run by the threads of Threads and interleaved at
\* their reads and writes of COMPLAINTS, of the records and of the clock.

\* Request inputs of the interleaved runs.
ConcUuid8 == {"0A1B2C3D"}

ConcRefs == { generate_reference_id(h) : h \in ConcUuid8 }

ConcFormRefs == {None} \cup { Str(r) : r \in ConcRefs }

ConcFormTokens == {None, Str(OtherToken)} \cup { Str(k) : k \in Tokens }

ConcLinkTokens == {OtherToken} \cup Tokens

\* The dict a local "record" refers to.
Deref(ptr) == IF ptr.kind = "store" THEN COMPLAINTS[ptr.ref] ELSE orphans[ptr.id]

\* Replaced records that no frame of frames refers to are garbage.
Collect(frames, objs) ==
    [i \in { j \in DOMAIN objs :
               \E t \in Threads : frames[t].record = OrphanPtr(j) } |-> objs[i]]

\* The view function of thread t returns response: its locals are dropped.
Return(t, response) ==
    LET frames == [threads EXCEPT ![t] = [@ EXCEPT !.pc = "done", !.record = NoPtr,
                                                   !.response = response]]
    IN  /\ threads' = frames
        /\ orphans' = Collect(frames, orphans)

\* Thread t moves on to the line pc with its frame changed to frame.
Goto(t, frame) ==
    /\ threads' = [threads EXCEPT ![t] = frame]
    /\ UNCHANGED orphans

\* index, lines 277-295: the form is read, the reference id and the token
\* are drawn, and the record is stored under the reference id.  A record
\* already stored there leaves the store; threads that hold it keep it.
IndexStore(t) ==
    /\ threads[t].pc = "idle"
    /\ \E form \in Forms, h \in ConcUuid8, n \in TokenDraws :
        LET reference_id == generate_reference_id(h)
            token        == Format06d(n)
            holders      == { u \in Threads : threads[u].record = StorePtr(reference_id) }
            i            == CHOOSE j \in 1..Cardinality(Threads) :
                                /\ j \notin DOMAIN orphans
                                /\ \A k \in 1..(j - 1) : k \in DOMAIN orphans
            kept         == [u \in Threads |->
                                IF u \in holders
                                THEN [threads[u] EXCEPT !.record = OrphanPtr(i)]
                                ELSE threads[u]]
        IN  /\ COMPLAINTS' = StorePut(COMPLAINTS, reference_id, NewRecord(form, token, now))
            /\ orphans' = IF holders = {}
                          THEN orphans
                          ELSE [j \in DOMAIN orphans \cup {i} |->
                                   IF j = i THEN COMPLAINTS[reference_id] ELSE orphans[j]]
            /\ threads' = [kept EXCEPT ![t] =
                              [Idle EXCEPT !.pc = "notify_user", !.handler = "index",
                                           !.reference_id = reference_id,
                                           !.token = Str(token), !.email = form.email]]
    /\ UNCHANGED <<now, config, last>>

\* index, line 297: sent = send_verification_email(email, reference_id, token)
IndexNotifyUser(t) ==
    /\ threads[t].pc = "notify_user"
    /\ \E env \in Environs, io \in Transports :
        LET sent == send_verification_email(env, config.backend, threads[t].email, io)
        IN  IF sent.raised
            THEN Return(t, Fault(sent.exc))
            ELSE Goto(t, [threads[t] EXCEPT !.pc = "notify_admin", !.sent = sent.value])
    /\ UNCHANGED <<COMPLAINTS, now, config, last>>

\* index, line 299: admin_notified = send_admin_notification(...)
IndexNotifyAdmin(t) ==
    /\ threads[t].pc = "notify_admin"
    /\ \E env \in Environs, io \in Transports :
        LET admin == send_admin_notification(env, config.backend, config.admins, io)
        IN  IF admin.raised
            THEN Return(t, Fault(admin.exc))
            ELSE Goto(t, [threads[t] EXCEPT !.pc = "respond"])
    /\ UNCHANGED <<COMPLAINTS, now, config, last>>

\* index, lines 301-323: flash and redirect
IndexRespond(t) ==
    /\ threads[t].pc = "respond"
    /\ \E env \in Environs :
        Return(t, IndexResponse(threads[t].reference_id, threads[t].sent,
                                WithEnviron(config, env)))
    /\ UNCHANGED <<COMPLAINTS, now, config, last>>

\* verify, lines 332-339: the form is read and the record looked up.
VerifyLookup(t) ==
    /\ threads[t].pc = "idle"
    /\ \E reference_id \in ConcFormRefs, token \in ConcFormTokens :
        IF ~Truthy(reference_id) \/ reference_id.val \notin DOMAIN COMPLAINTS
        THEN Return(t, InvalidReference("verify"))
        ELSE Goto(t, [Idle EXCEPT !.pc = "ttl", !.handler = "verify",
                                  !.reference_id = reference_id.val, !.token = token,
                                  !.record = StorePtr(reference_id.val)])
    /\ UNCHANGED <<COMPLAINTS, now, config, last>>

\* verify_link, lines 362-366: record = COMPLAINTS.get(reference_id)
LinkLookup(t) ==
    /\ threads[t].pc = "idle"
    /\ \E reference_id \in ConcRefs, token \in ConcLinkTokens :
        IF StoreGet(COMPLAINTS, reference_id).isNone
        THEN Return(t, InvalidReference("index"))
        ELSE Goto(t, [Idle EXCEPT !.pc = "ttl", !.handler = "verify_link",
                                  !.reference_id = reference_id, !.token = Str(token),
                                  !.record = StorePtr(reference_id)])
    /\ UNCHANGED <<COMPLAINTS, now, config, last>>

\* verify, lines 342-344, and verify_link, lines 368-370: the clock is read
\* and the age of the record tested.
CheckTtl(t) ==
    /\ threads[t].pc = "ttl"
    /\ IF Expired(Deref(threads[t].record), now)
       THEN Return(t, TokenExpired(IF threads[t].handler = "verify" THEN "verify" ELSE "index"))
       ELSE Goto(t, [threads[t] EXCEPT !.pc = "compare"])
    /\ UNCHANGED <<COMPLAINTS, now, config, last>>

\* verify, line 346 and lines 353-354, and verify_link, line 372 and lines
\* 380-381: the tokens are compared.
CompareToken(t) ==
    /\ threads[t].pc = "compare"
    /\ LET eq == compare_digest(Deref(threads[t].record).token, threads[t].token)
       IN  IF eq.raised
           THEN Return(t, Fault(eq.exc))
           ELSE IF eq.value
                THEN Goto(t, [threads[t] EXCEPT !.pc = "write"])
                ELSE Return(t, IF threads[t].handler = "verify"
                               THEN VerifyMismatch ELSE LinkMismatch)
    /\ UNCHANGED <<COMPLAINTS, now, config, last>>

\* verify, lines 347-351, and verify_link, lines 373-378: record["verified"]
\* = True on the dict the thread holds, then flash and redirect.
WriteVerified(t) ==
    /\ threads[t].pc = "write"
    /\ LET ptr      == threads[t].record
           written  == IF ptr.kind = "orphan"
                       THEN [orphans EXCEPT ![ptr.id].verified = TRUE]
                       ELSE orphans
           frames   == [threads EXCEPT ![t] =
                          [@ EXCEPT !.pc = "done", !.record = NoPtr,
                                    !.response = IF threads[t].handler = "verify"
                                                 THEN VerifySuccess(threads[t].reference_id)
                                                 ELSE LinkSuccess(threads[t].reference_id)]]
       IN  /\ COMPLAINTS' = IF ptr.kind = "store"
                            THEN [COMPLAINTS EXCEPT ![ptr.ref].verified = TRUE]
                            ELSE COMPLAINTS
           /\ threads' = frames
           /\ orphans' = Collect(frames, written)
    /\ UNCHANGED <<now, config, last>>

\* status, lines 386-388: record = COMPLAINTS.get(reference_id)
StatusLookup(t) ==
    /\ threads[t].pc = "idle"
    /\ \E reference_id \in ConcRefs :
        IF StoreGet(COMPLAINTS, reference_id).isNone
        THEN Return(t, Reply(404, [text |-> "Reference not found"]))
        ELSE Goto(t, [Idle EXCEPT !.pc = "read", !.handler = "status",
                                  !.reference_id = reference_id,
                                  !.record = StorePtr(reference_id)])
    /\ UNCHANGED <<COMPLAINTS, now, config, last>>

\* status, lines 389-393: the payload is built from the record.
StatusRead(t) ==
    /\ threads[t].pc = "read"
    /\ LET record == Deref(threads[t].record)
       IN  Return(t, Reply(200, [reference_id |-> threads[t].reference_id,
                                 verified     |-> record.verified,
                                 created_at   |-> IsoFormat(record.created_at)]))
    /\ UNCHANGED <<COMPLAINTS, now, config, last>>

\* The response has been sent: the thread is free for the next request.
Respond(t) ==
    /\ threads[t].pc = "done"
    /\ Goto(t, Idle)
    /\ UNCHANGED <<COMPLAINTS, now, config, last>>

NextConc ==
    \/ Tick
    \/ \E t \in Threads :
          \/ IndexStore(t) \/ IndexNotifyUser(t) \/ IndexNotifyAdmin(t) \/ IndexRespond(t)
          \/ VerifyLookup(t) \/ LinkLookup(t) \/ CheckTtl(t) \/ CompareToken(t)
          \/ WriteVerified(t)
          \/ StatusLookup(t) \/ StatusRead(t)
          \/ Respond(t)

SpecConc == Init /\ [][NextConc]_vars

\* ------------------------------------------------- the transport as a peer
\*
\* The interleaved handlers again, with the SMTP session of a notification
\* call split in two: the handler opens the session (smtplib.SMTP(host, port)
\* is given no timeout, so its socket operations block), and the session ends
\* when the mail server has answered or the connection has failed.  The ends
\* are steps of the transport, not of the handler.

\* index, line 297, up to the "with smtplib.SMTP..." statement of
\* send_verification_email (lines 61-120): without SMTP settings the call
\* returns at once, with them the thread waits inside the SMTP session.
NotifyUserCall(t) ==
    /\ threads[t].pc = "notify_user"
    /\ \E env \in Environs :
        IF MissingSmtp(env) # {} \/ threads[t].email.isNone
        THEN LET sent == send_verification_email(env, config.backend, threads[t].email,
                                                 [smtp |-> TRUE])
             IN  IF sent.raised
                 THEN Return(t, Fault(sent.exc))
                 ELSE Goto(t, [threads[t] EXCEPT !.pc = "notify_admin", !.sent = sent.value])
        ELSE Goto(t, [threads[t] EXCEPT !.pc = "smtp_user"])
    /\ UNCHANGED <<COMPLAINTS, now, config, last>>

\* send_verification_email, lines 120-146: the SMTP session ends, by its
\* last reply or by an exception, and the call returns.
SmtpUserEnds(t) ==
    /\ threads[t].pc = "smtp_user"
    /\ \E env \in Environs, io \in Transports :
        /\ MissingSmtp(env) = {}
        /\ LET sent == send_verification_email(env, config.backend, threads[t].email, io)
           IN  Goto(t, [threads[t] EXCEPT !.pc = "notify_admin", !.sent = sent.value])
    /\ UNCHANGED <<COMPLAINTS, now, config, last>>

\* index, line 299, up to the "with smtplib.SMTP..." statement of
\* send_admin_notification (lines 186-258).
NotifyAdminCall(t) ==
    /\ threads[t].pc = "notify_admin"
    /\ \E env \in Environs :
        IF config.admins = <<>> \/ MissingSmtp(env) # {}
        THEN LET admin == send_admin_notification(env, config.backend, config.admins,
                                                  [smtp |-> TRUE])
             IN  IF admin.raised
                 THEN Return(t, Fault(admin.exc))
                 ELSE Goto(t, [threads[t] EXCEPT !.pc = "respond"])
        ELSE Goto(t, [threads[t] EXCEPT !.pc = "smtp_admin"])
    /\ UNCHANGED <<COMPLAINTS, now, config, last>>

\* send_admin_notification, lines 252-270: the SMTP session ends.
SmtpAdminEnds(t) ==
    /\ threads[t].pc = "smtp_admin"
    /\ Goto(t, [threads[t] EXCEPT !.pc = "respond"])
    /\ UNCHANGED <<COMPLAINTS, now, config, last>>

\* The steps a thread takes by itself once it is serving a request: every
\* line of the view functions except the wait for the mail server.
Running(t) ==
    \/ NotifyUserCall(t) \/ NotifyAdminCall(t) \/ IndexRespond(t)
    \/ CheckTtl(t) \/ CompareToken(t) \/ WriteVerified(t)
    \/ StatusRead(t)

NextLive ==
    \/ Tick
    \/ \E t \in Threads :
          \/ IndexStore(t) \/ NotifyUserCall(t) \/ SmtpUserEnds(t)
          \/ NotifyAdminCall(t) \/ SmtpAdminEnds(t) \/ IndexRespond(t)
          \/ VerifyLookup(t) \/ LinkLookup(t) \/ CheckTtl(t) \/ CompareToken(t)
          \/ WriteVerified(t)
          \/ StatusLookup(t) \/ StatusRead(t)
          \/ Respond(t)

\* A thread that serves a request keeps running (the interpreter schedules
\* every runnable thread); nothing is assumed of the mail server.
SpecLive == Init /\ [][NextLive]_vars /\ \A t \in Threads : WF_vars(Running(t))

\* ------------------------------------------------- token draws, at large
\*
\* Submissions alone, with the draw of secrets.randbelow(10**6) taken from a
\* sample of the whole range: the ends of the range, both sides of every
\* power of ten, and MaxSample evenly spaced values.

RECURSIVE Pow10(_)
Pow10(k) == IF k = 0 THEN 1 ELSE 10 * Pow10(k - 1)

DrawSamples ==
    {0, TokenRange - 1}
    \cup { Pow10(k) - 1 : k \in 1..TokenWidth }
    \cup { Pow10(k) : k \in 0..(TokenWidth - 1) }
    \cup { i * (TokenRange \div MaxSample) + i : i \in 0..(MaxSample - 1) }

\* POST /, with the drawn integer kept beside the request: last.token is the
\* token argument of the call send_verification_email(email, reference_id,
\* token).
IndexDraw ==
    \E form \in Forms, h \in ConcUuid8, n \in DrawSamples, env \in Environs,
       io \in Submissions :
        LET res == index(COMPLAINTS, form, h, n, now, WithEnviron(config, env), io)
        IN  /\ COMPLAINTS' = res.store
            /\ last' = [handler |-> "index",
                        reference_id |-> Str(res.notified.reference_id),
                        token |-> Str(res.notified.token),
                        at |-> now, response |-> res.response, draw |-> n]
            /\ UNCHANGED <<now, config, threads, orphans>>

NextToken == IndexDraw

SpecToken == Init /\ [][NextToken]_vars

\* ------------------------------------------------------ repeated attempts
\*
\* The atomic handlers on one reference id, with the number of wrong-token
\* requests made on the stored record kept beside the last request.  The
\* program keeps no such count; it is followed up to MaxFailed.

NoAttempt == [handler |-> "", reference_id |-> None, token |-> None,
              at |-> 0, before |-> << >>, response |-> Reply(0, NoBody),
              failed |-> 0]

\* The request names the stored record and does not supply its token.
WrongToken(reference_id, token) ==
    /\ Truthy(reference_id)
    /\ reference_id.val \in DOMAIN COMPLAINTS
    /\ (token.isNone \/ token.val # COMPLAINTS[reference_id.val].token)

Attempted(handler, reference_id, token, res) ==
    [handler |-> handler, reference_id |-> reference_id, token |-> token,
     at |-> now, before |-> COMPLAINTS, response |-> res.response,
     failed |-> IF handler = "index" THEN 0
                ELSE IF WrongToken(reference_id, token) THEN last.failed + 1
                ELSE last.failed]

InitAttempts ==
    /\ COMPLAINTS = << >>
    /\ now = 0
    /\ config \in Configs
    /\ last = NoAttempt
    /\ threads = [t \in Threads |-> Idle]
    /\ orphans = << >>

\* POST /: a new record, on which no request has been made yet.
IndexFresh ==
    \E form \in Forms, h \in ConcUuid8, n \in TokenDraws, env \in Environs,
       io \in Submissions :
        LET res == index(COMPLAINTS, form, h, n, now, WithEnviron(config, env), io)
        IN  /\ COMPLAINTS' = res.store
            /\ last' = Attempted("index", Str(generate_reference_id(h)),
                                 Str(Format06d(n)), res)
            /\ UNCHANGED <<now, config, threads, orphans>>

\* POST /verify
VerifyAttempt ==
    \E reference_id \in ConcFormRefs, token \in FormTokens :
        LET res == verify(COMPLAINTS, [reference_id |-> reference_id, token |-> token], now)
        IN  /\ WrongToken(reference_id, token) => last.failed < MaxFailed
            /\ COMPLAINTS' = res.store
            /\ last' = Attempted("verify", reference_id, token, res)
            /\ UNCHANGED <<now, config, threads, orphans>>

\* GET /verify/<reference_id>/<token>
LinkAttempt ==
    \E reference_id \in ConcRefs, token \in LinkTokens :
        LET res == verify_link(COMPLAINTS, reference_id, token, now)
        IN  /\ WrongToken(Str(reference_id), Str(token)) => last.failed < MaxFailed
            /\ COMPLAINTS' = res.store
            /\ last' = Attempted("verify_link", Str(reference_id), Str(token), res)
            /\ UNCHANGED <<now, config, threads, orphans>>

NextAttempts == Tick \/ IndexFresh \/ VerifyAttempt \/ LinkAttempt

SpecAttempts == InitAttempts /\ [][NextAttempts]_vars

\* ------------------------------------------------------------------ claims

\* The last request served was a verification request, through either entry point.
IsVerification == last.handler \in {"verify", "verify_link"}

\* The last request named a reference id that was a key of the store.
KnownRef == Truthy(last.reference_id) /\ last.reference_id.val \in DOMAIN last.before

\* The record the last request named, as it was when the request arrived.
RecordBefore == last.before[last.reference_id.val]

\* time.time() - created_at for that record when the request arrived.
Age == last.at - RecordBefore.created_at

SuppliesCorrectToken == ~last.token.isNone /\ last.token.val = RecordBefore.token

\* C1: a verification request, through either entry point, that supplies the
\* record's token while now - created_at <= TTL (the limit included) reports
\* success and leaves verified = true, whether or not the record was already
\* verified.
C1_CorrectTokenVerifies ==
    (IsVerification /\ KnownRef /\ SuppliesCorrectToken /\ Age <= TOKEN_TTL_SECONDS)
        => /\ Outcome(last.response) = "verified_now"
           /\ COMPLAINTS[last.reference_id.val].verified
           /\ \A r \in DOMAIN last.before \ {last.reference_id.val} :
                  r \in DOMAIN COMPLAINTS /\ COMPLAINTS[r] = last.before[r]

\* C1 witness: the request is repeated on an already verified record exactly
\* at the limit now - created_at = TTL, and succeeds again.
C1_Witness ==
    /\ last.handler = "verify_link" /\ KnownRef /\ SuppliesCorrectToken
    /\ Age = TOKEN_TTL_SECONDS
    /\ RecordBefore.verified
    /\ Outcome(last.response) = "verified_now"
    /\ COMPLAINTS[last.reference_id.val].verified

\* C2: a verification request made when now - created_at > TTL reports
\* expired whatever token it supplies, and leaves the store as it was.
C2_ExpiredNeverVerifies ==
    (IsVerification /\ KnownRef /\ Age > TOKEN_TTL_SECONDS)
        => /\ Outcome(last.response) = "expired"
           /\ COMPLAINTS = last.before

\* C2 witness: the correct token arrives too late for an unverified record.
C2_Witness ==
    /\ last.handler = "verify" /\ KnownRef /\ SuppliesCorrectToken
    /\ Age > TOKEN_TTL_SECONDS
    /\ ~RecordBefore.verified
    /\ Outcome(last.response) = "expired"
    /\ ~COMPLAINTS[last.reference_id.val].verified

\* C3: a verification request whose reference id is not a key of the store
\* (absent, empty or unknown) reports already_invalid_reference, does not
\* raise, and leaves the store as it was, whatever token it supplies.
C3_UnknownReference ==
    (IsVerification /\ ~KnownRef)
        => /\ Outcome(last.response) = "already_invalid_reference"
           /\ last.response.status = 302
           /\ COMPLAINTS = last.before

\* C3 witness: an unknown reference id arrives on the link entry point while
\* another record is stored.
C3_Witness ==
    /\ last.handler = "verify_link" /\ ~KnownRef
    /\ last.before # << >>
    /\ Outcome(last.response) = "already_invalid_reference"

\* The inputs of the last request can be sent through both entry points: a
\* URL path segment is a non-empty string.
OnBothPaths ==
    /\ Truthy(last.reference_id)
    /\ ~last.token.isNone /\ last.token.val # <<>>

\* C4: started from the same store with the same (reference_id, token, now),
\* POST /verify and GET /verify/<reference_id>/<token> deliver the same
\* outcome and leave the same store; the request served is one of the two.
C4_EntryPointsAgree ==
    (IsVerification /\ OnBothPaths)
        => LET posted == verify(last.before,
                                [reference_id |-> last.reference_id, token |-> last.token],
                                last.at)
               linked == verify_link(last.before, last.reference_id.val,
                                     last.token.val, last.at)
           IN  /\ Outcome(posted.response) = Outcome(linked.response)
               /\ posted.store = linked.store
               /\ COMPLAINTS = linked.store
               /\ Outcome(last.response) = Outcome(posted.response)

\* C4 witness: a correct token arrives by the manual form for an expired
\* record, the case where the order of the two tests decides the outcome.
C4_Witness ==
    /\ last.handler = "verify" /\ OnBothPaths /\ KnownRef /\ SuppliesCorrectToken
    /\ Age > TOKEN_TTL_SECONDS
    /\ Outcome(verify_link(last.before, last.reference_id.val, last.token.val,
                           last.at).response) = "expired"
    /\ Outcome(last.response) = "expired"

\* C5: once the record stored under a reference id has verified = true, the
\* record stored under that reference id has verified = true after every
\* later request.
C5_VerifiedIsTerminal ==
    \A r \in DOMAIN last.before :
        last.before[r].verified => r \in DOMAIN COMPLAINTS /\ COMPLAINTS[r].verified

\* C6: no request deletes or replaces a record: name, email, issue, location,
\* token and created_at keep their values, and verified changes only by a
\* successful verification of that record.
C6_RecordsAreImmutable ==
    \A r \in DOMAIN last.before :
        /\ r \in DOMAIN COMPLAINTS
        /\ [COMPLAINTS[r] EXCEPT !.verified = FALSE] = [last.before[r] EXCEPT !.verified = FALSE]
        /\ COMPLAINTS[r].verified # last.before[r].verified
              => /\ IsVerification
                 /\ last.reference_id = Str(r)
                 /\ Outcome(last.response) = "verified_now"

\* Stores that differ from the current one in the token and the submitter's
\* fields of one record.
OtherSecrets(store) ==
    { [store EXCEPT ![r] = [@ EXCEPT !.token = k, !.name = p, !.email = p,
                                     !.issue = p, !.location = p]] :
        r \in DOMAIN store, k \in Tokens \cup {OtherToken}, p \in {None, Str("x")} }

\* C7: the response of GET /status/<reference_id> is the same for stores that
\* differ only in tokens and submitter fields, is the not-found signal for an
\* unknown reference id, and a status request leaves the store as it was.
C7_StatusHidesToken ==
    /\ \A r \in RefIds :
          /\ \A other \in OtherSecrets(COMPLAINTS) :
                status(other, r) = status(COMPLAINTS, r)
          /\ r \notin DOMAIN COMPLAINTS => status(COMPLAINTS, r).status = 404
    /\ last.handler = "status"
          => /\ COMPLAINTS = last.before
             /\ last.response = status(last.before, last.reference_id.val)

\* C7 witness: status is served for a verified record.
C7_Witness ==
    /\ last.handler = "status" /\ KnownRef
    /\ last.response.status = 200
    /\ last.response.body.verified
    /\ OtherSecrets(COMPLAINTS) # {}

RecordFields == {"name", "email", "issue", "location", "token", "created_at", "verified"}

Complete(record) == DOMAIN record = RecordFields

\* The step stores the record of a submission by thread t.
Submits(t) == threads[t].pc = "idle" /\ threads'[t].pc = "notify_user"

\* C8: with the handlers interleaved, the step of a submission that stores
\* its record leaves, under the generated reference id, an unverified record
\* with the generated token and the time of creation; and after every step
\* each record in the store, and each record a status or verification
\* handler holds, has all of its fields.
C8_RecordAppearsWhole ==
    [][ /\ \A r \in DOMAIN COMPLAINTS' : Complete(COMPLAINTS'[r])
        /\ \A i \in DOMAIN orphans' : Complete(orphans'[i])
        /\ \A t \in Threads :
              /\ threads'[t].record.kind = "store"
                    => threads'[t].record.ref \in DOMAIN COMPLAINTS'
              /\ threads'[t].record.kind = "orphan"
                    => threads'[t].record.id \in DOMAIN orphans'
              /\ Submits(t)
                    => LET reference_id == threads'[t].reference_id
                       IN  /\ reference_id \in DOMAIN COMPLAINTS'
                           /\ Complete(COMPLAINTS'[reference_id])
                           /\ ~COMPLAINTS'[reference_id].verified
                           /\ COMPLAINTS'[reference_id].token = threads'[t].token.val
                           /\ COMPLAINTS'[reference_id].created_at = now
      ]_vars

\* C8 witness: a status request has looked a record up while the submission
\* that stored it is still sending its notifications.
C8_Witness ==
    \E t, u \in Threads :
        /\ threads[t].handler = "index" /\ threads[t].pc = "notify_user"
        /\ threads[u].handler = "status" /\ threads[u].pc = "read"
        /\ threads[u].record = StorePtr(threads[t].reference_id)
        /\ Complete(COMPLAINTS[threads[t].reference_id])
        /\ ~COMPLAINTS[threads[t].reference_id].verified

\* C9: every submission stores the record and answers with a redirect and a
\* flash message that carries the reference id, whatever the configuration
\* and the transport do.
C9_SubmissionAlwaysAnswers ==
    last.handler = "index"
        => /\ last.reference_id.val \in DOMAIN COMPLAINTS
           /\ last.response.status = 302
           /\ last.response.flash.reference_id = last.reference_id.val

\* C10: every verification request ends in one of the four outcomes,
\* delivered as a flash message and a redirect.
C10_VerificationIsTotal ==
    IsVerification
        => /\ Outcome(last.response) \in
                 {"verified_now", "already_invalid_reference", "expired", "token_mismatch"}
           /\ last.response.status = 302

\* Lines of the view functions from which a handler reaches its return
\* without another write to the store or to a record.
PastItsWrites == {"idle", "notify_user", "notify_admin", "respond", "read", "done"}

\* The step is the one at which the verification handler of thread t writes
\* verified = True and reports success.
ReportsSuccess(t) == threads[t].pc = "write" /\ threads'[t].pc = "done"

\* C11: with the handlers interleaved at their reads and writes of the store,
\* no update is lost: when a verification handler reports success for a
\* reference id while every other handler is past its writes, the record
\* stored under that reference id has verified = true, and so has it once
\* all handlers have finished.
C11_NoLostUpdate ==
    [][ \A t \in Threads :
          (ReportsSuccess(t) /\ \A u \in Threads \ {t} : threads[u].pc \in PastItsWrites)
              => /\ threads[t].reference_id \in DOMAIN COMPLAINTS'
                 /\ COMPLAINTS'[threads[t].reference_id].verified
      ]_vars

\* The lines of index after the record has been stored.
IndexLines == {"notify_user", "smtp_user", "notify_admin", "smtp_admin", "respond"}

\* C12: under fairness of the handlers, every submission that has stored its
\* record eventually produces its HTTP response, whatever the mail transport
\* does, including never completing.
C12_SubmissionEventuallyAnswers ==
    \A t \in Threads : (threads[t].pc \in IndexLines) ~> (threads[t].pc = "done")

\* C12, verification part: a verification request eventually produces its
\* response, also while a submission waits for the mail server.
C12_VerificationNeverWaits ==
    \A t \in Threads : (threads[t].pc \in {"ttl", "compare", "write"}) ~> (threads[t].pc = "done")

\* C12, order part: whenever a submission is at or past its first
\* notification call, a record is stored under its reference id.
C12_StoredBeforeNotified ==
    \A t \in Threads :
        threads[t].pc \in IndexLines => threads[t].reference_id \in DOMAIN COMPLAINTS

\* The digit a character stands for.
DigitValue(c) == CHOOSE d \in 0..9 : Digit(d) = c

RECURSIVE Value(_)
\* int(s) for a string s of decimal digits.
Value(s) ==
    IF s = <<>> THEN 0
    ELSE 10 * Value(SubSeq(s, 1, Len(s) - 1)) + DigitValue(s[Len(s)])

\* C13: the token a submission generates from the draw n, 0 <= n < 10^6, is
\* a string of exactly six decimal digits whose numeric value is n (so it is
\* n padded with zeros on the left), and the record stores the very string
\* that is passed to the submitter notification.
C13_TokenFormat ==
    last.handler = "index"
        => LET stored == COMPLAINTS[last.reference_id.val].token
           IN  /\ last.draw \in 0..(TokenRange - 1)
               /\ Len(stored) = 6
               /\ \A i \in 1..Len(stored) : stored[i] \in AsciiChars
               /\ Value(stored) = last.draw
               /\ last.token.val = stored

\* C13 witness: a draw of one digit is padded with five zeros, and the
\* largest draw fills the six digits.
C13_Witness ==
    /\ last.handler = "index"
    /\ last.draw = 9
    /\ COMPLAINTS[last.reference_id.val].token = <<"0", "0", "0", "0", "0", "9">>
    /\ last.token.val = <<"0", "0", "0", "0", "0", "9">>
    /\ TokenRange - 1 \in DrawSamples
    /\ Format06d(TokenRange - 1) = <<"9", "9", "9", "9", "9", "9">>

\* The record stored under r is unverified and older than the limit.
ExpiredUnverified(r) ==
    /\ ~COMPLAINTS[r].verified
    /\ now - COMPLAINTS[r].created_at > TOKEN_TTL_SECONDS

\* C14: with the handlers interleaved with the clock, a record that is
\* unverified at a moment when now - created_at > TTL is never verified
\* later: no step sets verified = true in the store under a reference id
\* whose record is unverified and expired.
C14_ExpiredStaysUnverified ==
    [][ \A r \in DOMAIN COMPLAINTS :
          ExpiredUnverified(r) => (r \in DOMAIN COMPLAINTS' /\ ~COMPLAINTS'[r].verified)
      ]_vars

\* The last request supplied a token, and it is not the record's token.
SuppliesWrongToken == ~last.token.isNone /\ last.token.val # RecordBefore.token

\* C15: a verification request, through either entry point, that names a
\* stored, unexpired record and supplies a token different from the record's
\* reports token_mismatch and leaves the whole store as it was.
C15_WrongTokenMismatch ==
    (IsVerification /\ KnownRef /\ Age <= TOKEN_TTL_SECONDS /\ SuppliesWrongToken)
        => /\ Outcome(last.response) = "token_mismatch"
           /\ COMPLAINTS = last.before

\* The response and the store that the handler of the last request computes
\* from the store, the inputs and the clock the request found.
Recomputed ==
    IF last.handler = "verify"
    THEN verify(last.before, [reference_id |-> last.reference_id, token |-> last.token],
                last.at)
    ELSE verify_link(last.before, last.reference_id.val, last.token.val, last.at)

\* C16: failed attempts never lock a record out.  A verification request
\* that does not succeed leaves the store as it was; response and store of a
\* verification request are those its handler computes from the store, the
\* supplied (reference_id, token) and the clock alone; and so, after any
\* number of wrong-token requests on a record, a request with the record's
\* token while now - created_at <= TTL reports success and leaves
\* verified = true.
C16_NoLockout ==
    IsVerification
        => /\ last.response = Recomputed.response
           /\ COMPLAINTS = Recomputed.store
           /\ Outcome(last.response) # "verified_now" => COMPLAINTS = last.before
           /\ (KnownRef /\ SuppliesCorrectToken /\ Age <= TOKEN_TTL_SECONDS)
                 => /\ Outcome(last.response) = "verified_now"
                    /\ COMPLAINTS[last.reference_id.val].verified

\* C16 witness: after MaxFailed wrong-token requests on an unverified
\* record, the request with its token succeeds.
C16_Witness ==
    /\ IsVerification /\ KnownRef /\ SuppliesCorrectToken
    /\ last.failed = MaxFailed
    /\ MaxFailed >= 2
    /\ ~RecordBefore.verified
    /\ Outcome(last.response) = "verified_now"
    /\ COMPLAINTS[last.reference_id.val].verified

\* C17: expiry overrides idempotent re-verification without undoing it.  A
\* verification request that supplies the token of an already verified
\* record when now - created_at > TTL reports expired, not success; the
\* record keeps verified = true, and GET /status/<reference_id> reports
\* verified = true for it.
C17_ExpiryOverridesReverification ==
    /\ (IsVerification /\ KnownRef /\ RecordBefore.verified /\ SuppliesCorrectToken
           /\ Age > TOKEN_TTL_SECONDS)
          => /\ Outcome(last.response) = "expired"
             /\ COMPLAINTS[last.reference_id.val].verified
             /\ status(COMPLAINTS, last.reference_id.val).status = 200
             /\ status(COMPLAINTS, last.reference_id.val).body.verified
    /\ (last.handler = "status" /\ KnownRef /\ RecordBefore.verified)
          => /\ last.response.status = 200
             /\ last.response.body.verified
             /\ COMPLAINTS[last.reference_id.val].verified

\* C17 witness: the emailed link of a verified record is opened again after
\* the record has expired.
C17_Witness ==
    /\ last.handler = "verify_link" /\ KnownRef /\ SuppliesCorrectToken
    /\ RecordBefore.verified
    /\ Age > TOKEN_TTL_SECONDS
    /\ Outcome(last.response) = "expired"
    /\ COMPLAINTS[last.reference_id.val].verified
    /\ status(COMPLAINTS, last.reference_id.val).body.verified

====
